---- MODULE Spec2Model ----
(***************************************************************************)
(* Batch-Image-Resizer: the crop engine (CropEngine), the re-framer and    *)
(* batch export (BatchProcessor) and the parts of UIController that drive  *)
(* them, as a state machine.                                               *)
(*                                                                         *)
(* Arithmetic.  The source computes with JavaScript numbers.  The model    *)
(* computes with exact rationals <<n, d>> (d > 0, lowest terms): every    *)
(* +, -, *, / of the source is the exact operation, no rounding.           *)
(***************************************************************************)
EXTENDS Integers, Sequences, FiniteSets, TLC

\* ------------------------------------------------------------------------
\* Exact rational arithmetic
\* ------------------------------------------------------------------------
Abs(n) == IF n < 0 THEN -n ELSE n

RECURSIVE GCD(_, _)
GCD(a, b) == IF b = 0 THEN a ELSE GCD(b, a % b)

QNorm(n, d) ==
    LET s == IF d < 0 THEN -1 ELSE 1
        g == GCD(Abs(n), Abs(d))
    IN  <<(s * n) \div g, (s * d) \div g>>

Q(n)       == <<n, 1>>
QAdd(a, b) == QNorm(a[1] * b[2] + b[1] * a[2], a[2] * b[2])
QSub(a, b) == QNorm(a[1] * b[2] - b[1] * a[2], a[2] * b[2])
QMul(a, b) == QNorm(a[1] * b[1], a[2] * b[2])
QDiv(a, b) == QNorm(a[1] * b[2], a[2] * b[1])
QLt(a, b)  == a[1] * b[2] < b[1] * a[2]
QLe(a, b)  == a[1] * b[2] <= b[1] * a[2]
QGt(a, b)  == QLt(b, a)
QGe(a, b)  == QLe(b, a)
QMin(a, b) == IF QLt(b, a) THEN b ELSE a
QMax(a, b) == IF QLt(a, b) THEN b ELSE a
QAbs(a)    == <<Abs(a[1]), a[2]>>
QHalf(a)   == QDiv(a, Q(2))

\* A nullable reference: Null, or Some(v) holding v.
Null    == <<>>
Some(v) == <<v>>
Val(o)  == o[1]

Rect(x, y, w, h) == [x |-> x, y |-> y, width |-> w, height |-> h]

\* ------------------------------------------------------------------------
\* Program constants
\* ------------------------------------------------------------------------
MIN_SIZE   == 10
handleSize == 12
margin     == 40
DefaultCropFraction == <<4, 5>>     \* 0.8
zoomIntensity       == <<1, 10>>    \* 0.1
MinZoom             == <<1, 10>>    \* 0.1
MaxZoom             == Q(10)

\* ------------------------------------------------------------------------
\* Bounds of the model
\* ------------------------------------------------------------------------
MaxGestures == 2      \* pointerDown events in a run
MaxWheel    == 1      \* wheel events in a run
MaxAdds     == 2      \* clicks on the add-preset button in a run
MaxFiles    == 2      \* image files handed to handleFile in a run
MaxEdits    == 3      \* change events on the preset rows in a run

\* Decoded images <<width, height>> the loader can deliver.
Images == { <<100, 100>>, <<10, 10>>, <<100, 200>> }
\* Display sizes <<width, height>> of the canvas container.
CanvasSizes == { <<180, 180>> }
\* Pointer positions in canvas pixel space: with the default crop on screen
\* they fall on the four handles, inside the crop and outside the image.
Points == { <<60, 60>>, <<120, 60>>, <<60, 120>>, <<120, 120>>,
            <<90, 90>>, <<160, 160>> }
\* Pointer positions of wheel events.
WheelPoints == { <<90, 90>>, <<160, 160>> }

VARIABLES
    image,        \* CropEngine.image: Null or Some(<<W, H>>)
    canvas,       \* canvas.width, canvas.height
    cropRect,     \* CropEngine.cropRect: Null or Some(Rect)
    isDragging,   \* CropEngine.isDragging
    dragStart,    \* CropEngine.dragStart: Null or Some(<<x, y>>)
    dragMode,     \* CropEngine.dragMode: "none" for null
    view,         \* CropEngine.view: [zoom, panX, panY]
    appImage,     \* appState.originalImage
    appCrop,      \* appState.cropRect
    lastEvent,    \* the handler that ran last
    notified,     \* whether that handler called onCropChange
    ctxClip,      \* the 2d context's clip region: Some(set of pixels), Null if not followed
    pixels,       \* the canvas bitmap: Some(pixel -> paint), Null if not followed
    nGestures,    \* pointerDown events so far
    nWheel,       \* wheel events so far
    rfImage,      \* generateImage's image argument: Null or Some(<<W, H>>)
    rfCrop,       \* generateImage's userCrop argument: Null or Some(Rect)
    rfPreset,     \* generateImage's preset argument: Null or Some(<<w, h>>)
    rfSource,     \* the source rectangle it draws from: Null or Some(Rect)
    appPresets,   \* appState.presets
    btnDisabled,  \* the download button's disabled flag
    btnHTML,      \* the download button's innerHTML
    originalText, \* handleDownload's local of that name: Null outside a call
    exportPhase,  \* where the latest handleDownload call stands
    tasks,        \* the per-preset promises of the latest process call
    zipFiles,     \* the entries of that call's zip folder: <<filename, task>>
    archive,      \* what that call has given saveAs: Null or Some(entries)
    alertMsg,     \* the last alert shown, "none" before the first
    clickImage,   \* appState.originalImage when the latest export was requested
    clickCrop,    \* appState.cropRect when the latest export was requested
    presets,      \* PresetManager.presets
    stored,       \* localStorage['image-resizer-presets']: Null or Some(list)
    nAdds,        \* clicks on the add-preset button so far
    rows,         \* the rows renderPresetsList has built: the preset object
                  \* each row's handlers close over, and its checkbox
    nEdits,       \* change events on the rows' inputs so far
    lastChange,   \* the latest of them: Null or Some(<<id, field, value>>)
    loads         \* ImageLoader: the files handed to handleFile, each with
                  \* how far its FileReader and Image have come

engineVars == <<image, canvas, cropRect, isDragging, dragStart, dragMode, view,
                appImage, appCrop, lastEvent, notified, ctxClip, pixels,
                nGestures, nWheel>>

rfVars == <<rfImage, rfCrop, rfPreset, rfSource>>

exportVars == <<appPresets, btnDisabled, btnHTML, originalText, exportPhase, tasks, zipFiles, archive,
                alertMsg, clickImage, clickCrop>>

presetVars == <<presets, stored, nAdds, rows, nEdits, lastChange>>

loaderVars == <<loads>>

vars == <<engineVars, rfVars, exportVars, presetVars, loaderVars>>

ResizeModes == {"resize-tl", "resize-tr", "resize-bl", "resize-br"}

\* ------------------------------------------------------------------------
\* CropEngine: coordinate systems
\* ------------------------------------------------------------------------
\* The scale computed without the fallback for a viewport with no room.
getBaseScale_NoFallback(img, cv) ==
    IF img = Null THEN Q(1)
    ELSE QMin(QNorm(cv[1] - margin * 2, Val(img)[1]),
              QNorm(cv[2] - margin * 2, Val(img)[2]))

getBaseScale(img, cv) ==
    IF img = Null THEN Q(1)
    ELSE LET w == cv[1] - margin * 2
             h == cv[2] - margin * 2
         IN  IF w <= 0 \/ h <= 0 THEN Q(1)
             ELSE QMin(QNorm(w, Val(img)[1]), QNorm(h, Val(img)[2]))

totalScale(img, cv, vw) == QMul(getBaseScale(img, cv), vw.zoom)

imageToCanvas(img, cv, vw, imgX, imgY) ==
    IF img = Null THEN <<Q(0), Q(0)>>
    ELSE LET ts    == totalScale(img, cv, vw)
             cx    == QNorm(cv[1], 2)
             cy    == QNorm(cv[2], 2)
             imgCx == QNorm(Val(img)[1], 2)
             imgCy == QNorm(Val(img)[2], 2)
         IN  << QAdd(QAdd(cx, vw.panX), QMul(QSub(imgX, imgCx), ts)),
                QAdd(QAdd(cy, vw.panY), QMul(QSub(imgY, imgCy), ts)) >>

\* The inverse transform with the pan offset left out.
canvasToImage_NoPan(img, cv, vw, canvasX, canvasY) ==
    IF img = Null THEN <<Q(0), Q(0)>>
    ELSE LET ts == totalScale(img, cv, vw)
         IN  << QAdd(QNorm(Val(img)[1], 2), QDiv(QSub(canvasX, QNorm(cv[1], 2)), ts)),
                QAdd(QNorm(Val(img)[2], 2), QDiv(QSub(canvasY, QNorm(cv[2], 2)), ts)) >>

canvasToImage(img, cv, vw, canvasX, canvasY) ==
    IF img = Null THEN <<Q(0), Q(0)>>
    ELSE LET ts    == totalScale(img, cv, vw)
             cx    == QNorm(cv[1], 2)
             cy    == QNorm(cv[2], 2)
             imgCx == QNorm(Val(img)[1], 2)
             imgCy == QNorm(Val(img)[2], 2)
         IN  << QAdd(imgCx, QDiv(QSub(QSub(canvasX, cx), vw.panX), ts)),
                QAdd(imgCy, QDiv(QSub(QSub(canvasY, cy), vw.panY), ts)) >>

\* ------------------------------------------------------------------------
\* CropEngine.render.  The bitmap is followed at a few pixels; the paint of
\* a pixel is what has been drawn on it since it was last cleared.  Edges
\* are not anti-aliased: a pixel is inside a box or not.
\* ------------------------------------------------------------------------
renderHandleSize == 8
borderWidth == 2

SamplePixels == { <<90, 90>>, <<55, 90>>, <<49, 49>>, <<77, 90>>, <<20, 20>>, <<135, 90>> }

\* A pixel of a canvas whose size has just been set: transparent black.
BlankPaint ==
    [cleared |-> FALSE, image |-> Null, dark |-> 0,
     border |-> FALSE, handle |-> FALSE, grid |-> FALSE]

\* The sampled pixels a canvas of size cv has; a new or resized canvas has
\* no clip, so that all of them can be drawn on.
FullClip(cv) == { p \in SamplePixels : p[1] < cv[1] /\ p[2] < cv[2] }

BlankBitmap == [p \in SamplePixels |-> BlankPaint]

\* pt lies in the box with corners tl (included) and br (excluded).
InBox(pt, tl, br) ==
    /\ QLe(tl[1], pt[1]) /\ QLt(pt[1], br[1])
    /\ QLe(tl[2], pt[2]) /\ QLt(pt[2], br[2])

Shift(c, dx, dy) == <<QAdd(c[1], dx), QAdd(c[2], dy)>>

\* clip('evenodd') on the path of the canvas rectangle and the crop
\* rectangle: the current clip is intersected with the canvas outside the
\* crop.  Nothing in render saves or restores the context.
ClipAfter(img, cv, vw, crop, clip) ==
    IF img = Null \/ crop = Null THEN clip
    ELSE LET r   == Val(crop)
             cTL == imageToCanvas(img, cv, vw, r.x, r.y)
             cBR == imageToCanvas(img, cv, vw, QAdd(r.x, r.width), QAdd(r.y, r.height))
         IN  { p \in clip : ~InBox(<<Q(p[1]), Q(p[2])>>, cTL, cBR) }

\* What render draws on pixel p over the paint `base`, p being in the clip.
PaintOver(base, img, cv, vw, crop, p) ==
    LET pt == <<Q(p[1]), Q(p[2])>> IN
    IF img = Null THEN base
    ELSE LET topLeft     == imageToCanvas(img, cv, vw, Q(0), Q(0))
             bottomRight == imageToCanvas(img, cv, vw, Q(Val(img)[1]), Q(Val(img)[2]))
             at          == canvasToImage(img, cv, vw, pt[1], pt[2])
             drawn == IF InBox(pt, topLeft, bottomRight)
                      THEN [base EXCEPT !.image = Some(<<Val(img), at>>)]
                      ELSE base
         IN  IF crop = Null THEN drawn
             ELSE LET r    == Val(crop)
                      cTL  == imageToCanvas(img, cv, vw, r.x, r.y)
                      cBR  == imageToCanvas(img, cv, vw, QAdd(r.x, r.width),
                                            QAdd(r.y, r.height))
                      cw   == QSub(cBR[1], cTL[1])
                      ch   == QSub(cBR[2], cTL[2])
                      half == QNorm(renderHandleSize, 2)
                      hw   == QNorm(borderWidth, 2)
                      thin == QNorm(1, 2)
                      outside == ~InBox(pt, cTL, cBR)
                      onBorder ==
                          /\ InBox(pt, Shift(cTL, QSub(Q(0), hw), QSub(Q(0), hw)),
                                       Shift(cBR, hw, hw))
                          /\ ~InBox(pt, Shift(cTL, hw, hw),
                                        Shift(cBR, QSub(Q(0), hw), QSub(Q(0), hw)))
                      onHandle ==
                          \E c \in { cTL, <<cBR[1], cTL[2]>>, <<cTL[1], cBR[2]>>, cBR } :
                              InBox(pt, Shift(c, QSub(Q(0), half), QSub(Q(0), half)),
                                        Shift(c, half, half))
                      onGrid ==
                          \/ \E k \in {1, 2} :
                                LET gx == QAdd(cTL[1], QDiv(QMul(Q(k), cw), Q(3)))
                                IN  InBox(pt, <<QSub(gx, thin), cTL[2]>>,
                                              <<QAdd(gx, thin), cBR[2]>>)
                          \/ \E k \in {1, 2} :
                                LET gy == QAdd(cTL[2], QDiv(QMul(Q(k), ch), Q(3)))
                                IN  InBox(pt, <<cTL[1], QSub(gy, thin)>>,
                                              <<cBR[1], QAdd(gy, thin)>>)
                  IN  IF ~outside THEN drawn
                      ELSE [drawn EXCEPT !.dark   = @ + 1,
                                         !.border = @ \/ onBorder,
                                         !.handle = @ \/ onHandle,
                                         !.grid   = @ \/ onGrid]

\* render without its opening fillRect: the frame is drawn over the old one.
PaintPixel_NoClear(img, cv, vw, crop, clip, old, p) ==
    IF p \notin clip THEN old ELSE PaintOver(old, img, cv, vw, crop, p)

\* The paint of pixel p after render: outside the clip it keeps its old
\* paint; inside, the opaque fillRect clears it and the frame is drawn.
PaintPixel(img, cv, vw, crop, clip, old, p) ==
    IF p \notin clip THEN old
    ELSE PaintOver([BlankPaint EXCEPT !.cleared = TRUE], img, cv, vw, crop, p)

\* render(), called at the end of a handler: it draws the state the handler
\* leaves, on a context whose clip is `clip` and whose bitmap is `bitmap`.
render(clip, bitmap) ==
    IF pixels = Null
    THEN UNCHANGED <<ctxClip, pixels>>
    ELSE /\ ctxClip' = Some(ClipAfter(image', canvas', view', cropRect', clip))
         /\ pixels' = Some([p \in SamplePixels |->
                              PaintPixel(image', canvas', view', cropRect',
                                         clip, bitmap[p], p)])

\* ------------------------------------------------------------------------
\* CropEngine.setImage, reached through UIController.onImageLoaded
\* ------------------------------------------------------------------------
\* The camera is left as it is.
ResetView_Kept == view

ResetView == [zoom |-> Q(1), panX |-> Q(0), panY |-> Q(0)]

\* The default crop sized after the larger dimension.
DefaultCrop_OfMaxDim(img) ==
    LET maxDim == IF img[1] < img[2] THEN img[2] ELSE img[1]
        size   == QMul(Q(maxDim), DefaultCropFraction)
    IN  Rect(QHalf(QSub(Q(img[1]), size)), QHalf(QSub(Q(img[2]), size)), size, size)

DefaultCrop(img) ==
    LET minDim == IF img[1] < img[2] THEN img[1] ELSE img[2]
        size   == QMul(Q(minDim), DefaultCropFraction)
    IN  Rect(QHalf(QSub(Q(img[1]), size)), QHalf(QSub(Q(img[2]), size)), size, size)

\* The observer is not called: appState.cropRect keeps what it holds.
onCropChange_NotCalled(rect) == appCrop

\* The observer UIController hands to CropEngine: the value appState.cropRect
\* takes when the engine calls onCropChange(rect).
onCropChange(rect) == rect

onImageLoaded(img, cv) ==
    /\ appImage' = Some(img)
    /\ canvas' = cv
    /\ image' = Some(img)
    /\ view' = ResetView
    /\ cropRect' = Some(DefaultCrop(img))
    /\ appCrop' = onCropChange(cropRect')
    /\ notified' = TRUE
    /\ lastEvent' = "load"
    /\ render(FullClip(cv), BlankBitmap)
    /\ UNCHANGED <<isDragging, dragStart, dragMode, nGestures, nWheel>>

\* ------------------------------------------------------------------------
\* UIController.init: the window's resize handler.  Setting the size of a
\* canvas resets its context and bitmap.
\* ------------------------------------------------------------------------
handleResize(cv) ==
    /\ notified' = FALSE
    /\ UNCHANGED <<image, cropRect, view, appImage, appCrop, isDragging, dragStart,
                   dragMode, nGestures, nWheel>>
    /\ IF appImage = Null
       THEN /\ lastEvent' = "resize-ignored"
            /\ UNCHANGED <<canvas, ctxClip, pixels>>
       ELSE /\ canvas' = cv
            /\ lastEvent' = "resize"
            /\ render(FullClip(cv), BlankBitmap)

\* ------------------------------------------------------------------------
\* CropEngine.handleMouseDown
\* ------------------------------------------------------------------------
hit(mouse, x, y) ==
    /\ QLt(QAbs(QSub(mouse[1], x)), Q(handleSize))
    /\ QLt(QAbs(QSub(mouse[2], y)), Q(handleSize))

\* The hit test with the crop's body tried before its handles.
HitMode_BodyFirst(img, cv, vw, rect, mouse) ==
    LET tl == imageToCanvas(img, cv, vw, rect.x, rect.y)
        br == imageToCanvas(img, cv, vw, QAdd(rect.x, rect.width),
                            QAdd(rect.y, rect.height))
    IN  IF /\ QGt(mouse[1], tl[1]) /\ QLt(mouse[1], br[1])
           /\ QGt(mouse[2], tl[2]) /\ QLt(mouse[2], br[2]) THEN "move"
        ELSE IF hit(mouse, tl[1], tl[2]) THEN "resize-tl"
        ELSE IF hit(mouse, br[1], tl[2]) THEN "resize-tr"
        ELSE IF hit(mouse, tl[1], br[2]) THEN "resize-bl"
        ELSE IF hit(mouse, br[1], br[2]) THEN "resize-br"
        ELSE "pan"

HitMode(img, cv, vw, rect, mouse) ==
    LET cropCanvas      == imageToCanvas(img, cv, vw, rect.x, rect.y)
        cropBottomRight == imageToCanvas(img, cv, vw, QAdd(rect.x, rect.width),
                                         QAdd(rect.y, rect.height))
        cropW == QSub(cropBottomRight[1], cropCanvas[1])
        cropH == QSub(cropBottomRight[2], cropCanvas[2])
        left   == cropCanvas[1]
        top    == cropCanvas[2]
        right  == QAdd(cropCanvas[1], cropW)
        bottom == QAdd(cropCanvas[2], cropH)
    IN  IF hit(mouse, left, top) THEN "resize-tl"
        ELSE IF hit(mouse, right, top) THEN "resize-tr"
        ELSE IF hit(mouse, left, bottom) THEN "resize-bl"
        ELSE IF hit(mouse, right, bottom) THEN "resize-br"
        ELSE IF /\ QGt(mouse[1], left) /\ QLt(mouse[1], right)
                /\ QGt(mouse[2], top)  /\ QLt(mouse[2], bottom) THEN "move"
        ELSE "pan"

handleMouseDown(p) ==
    LET mouse == <<Q(p[1]), Q(p[2])>> IN
    /\ nGestures < MaxGestures
    /\ nGestures' = nGestures + 1
    /\ IF image = Null \/ cropRect = Null
       THEN /\ lastEvent' = "down-ignored"
            /\ UNCHANGED <<dragMode, isDragging, dragStart>>
       ELSE /\ dragMode' = HitMode(image, canvas, view, Val(cropRect), mouse)
            /\ isDragging' = TRUE
            /\ dragStart' = Some(mouse)
            /\ lastEvent' = "down"
    /\ notified' = FALSE
    /\ UNCHANGED <<image, canvas, cropRect, view, appImage, appCrop, nWheel,
                   ctxClip, pixels>>

\* ------------------------------------------------------------------------
\* CropEngine.handleMouseMove
\* ------------------------------------------------------------------------
\* The 'move' branch: translate by (dx, dy), then clamp into the image.
MoveRect(img, rect, dx, dy) ==
    LET x1 == QAdd(rect.x, dx)
        y1 == QAdd(rect.y, dy)
        x2 == QMax(Q(0), QMin(QSub(Q(img[1]), rect.width), x1))
        y2 == QMax(Q(0), QMin(QSub(Q(img[2]), rect.height), y1))
    IN  Rect(x2, y2, rect.width, rect.height)

\* ResizeBR without the MIN_SIZE floor.
ResizeBR_NoMin(rect, cur) ==
    Rect(rect.x, rect.y, QSub(cur[1], rect.x), QSub(cur[2], rect.y))

ResizeBR(rect, cur) ==
    LET fixedX == rect.x
        fixedY == rect.y
    IN  Rect(rect.x, rect.y,
             QMax(Q(MIN_SIZE), QSub(cur[1], fixedX)),
             QMax(Q(MIN_SIZE), QSub(cur[2], fixedY)))

\* ResizeTL that moves the corner but keeps the old width and height.
ResizeTL_KeepsSize(rect, cur) ==
    LET fixedX == QAdd(rect.x, rect.width)
        fixedY == QAdd(rect.y, rect.height)
        newX   == QMin(QSub(fixedX, Q(MIN_SIZE)), cur[1])
        newY   == QMin(QSub(fixedY, Q(MIN_SIZE)), cur[2])
    IN  Rect(newX, newY, rect.width, rect.height)

ResizeTL(rect, cur) ==
    LET fixedX == QAdd(rect.x, rect.width)
        fixedY == QAdd(rect.y, rect.height)
        newX   == QMin(QSub(fixedX, Q(MIN_SIZE)), cur[1])
        newY   == QMin(QSub(fixedY, Q(MIN_SIZE)), cur[2])
    IN  Rect(newX, newY, QSub(fixedX, newX), QSub(fixedY, newY))

ResizeTR(rect, cur) ==
    LET fixedX == rect.x
        fixedY == QAdd(rect.y, rect.height)
        newY   == QMin(QSub(fixedY, Q(MIN_SIZE)), cur[2])
    IN  Rect(rect.x, newY,
             QMax(Q(MIN_SIZE), QSub(cur[1], fixedX)),
             QSub(fixedY, newY))

ResizeBL(rect, cur) ==
    LET fixedX == QAdd(rect.x, rect.width)
        fixedY == rect.y
        newX   == QMin(QSub(fixedX, Q(MIN_SIZE)), cur[1])
    IN  Rect(newX, rect.y,
             QSub(fixedX, newX),
             QMax(Q(MIN_SIZE), QSub(cur[2], fixedY)))

ResizeRect(mode, rect, cur) ==
    CASE mode = "resize-br" -> ResizeBR(rect, cur)
      [] mode = "resize-tl" -> ResizeTL(rect, cur)
      [] mode = "resize-tr" -> ResizeTR(rect, cur)
      [] mode = "resize-bl" -> ResizeBL(rect, cur)
      [] OTHER -> rect

MoveGuard ==
    /\ isDragging
    /\ image # Null
    /\ cropRect # Null
    /\ dragMode # "none"
    /\ dragStart # Null

\* The 'pan' branch: the pointer's displacement since dragStart is added
\* to the pan offset as it is, and the zoom carried over with a factor.
PanView_KeepsZoomFactor(vw, start, mouse) ==
    [vw EXCEPT !.panX = QAdd(@, QMul(vw.zoom, QSub(mouse[1], start[1]))),
               !.panY = QAdd(@, QMul(vw.zoom, QSub(mouse[2], start[2])))]

\* The 'pan' branch: the pointer's displacement since dragStart is added
\* to the pan offset.
PanView(vw, start, mouse) ==
    [vw EXCEPT !.panX = QAdd(@, QSub(mouse[1], start[1])),
               !.panY = QAdd(@, QSub(mouse[2], start[2]))]

handleMouseMove(p) ==
    LET mouse == <<Q(p[1]), Q(p[2])>> IN
    /\ UNCHANGED <<image, canvas, appImage, isDragging, dragMode,
                   nGestures, nWheel>>
    /\ IF ~MoveGuard
       THEN /\ lastEvent' = "move-ignored"
            /\ notified' = FALSE
            /\ UNCHANGED <<cropRect, appCrop, view, dragStart, ctxClip, pixels>>
       ELSE IF dragMode = "pan"
       THEN /\ view' = PanView(view, Val(dragStart), mouse)
            /\ dragStart' = Some(mouse)
            /\ lastEvent' = "move"
            /\ notified' = FALSE
            /\ UNCHANGED <<cropRect, appCrop>>
            /\ render(Val(ctxClip), Val(pixels))
       ELSE LET currentImg == canvasToImage(image, canvas, view, mouse[1], mouse[2])
                startImg   == canvasToImage(image, canvas, view,
                                            Val(dragStart)[1], Val(dragStart)[2])
                dx == QSub(currentImg[1], startImg[1])
                dy == QSub(currentImg[2], startImg[2])
            IN  /\ IF dragMode = "move"
                   THEN /\ cropRect' = Some(MoveRect(Val(image), Val(cropRect), dx, dy))
                        /\ dragStart' = Some(mouse)
                   ELSE /\ cropRect' = Some(ResizeRect(dragMode, Val(cropRect), currentImg))
                        /\ UNCHANGED dragStart
                /\ appCrop' = onCropChange(cropRect')
                /\ notified' = TRUE
                /\ lastEvent' = "move"
                /\ UNCHANGED view
                /\ render(Val(ctxClip), Val(pixels))

\* ------------------------------------------------------------------------
\* CropEngine.handleMouseUp
\* ------------------------------------------------------------------------
\* pointerUp that leaves the gesture fields as they are.
handleMouseUp_KeepsGesture ==
    /\ lastEvent' = "up"
    /\ notified' = FALSE
    /\ UNCHANGED <<image, canvas, cropRect, view, appImage, appCrop,
                   isDragging, dragMode, dragStart, nGestures, nWheel,
                   ctxClip, pixels>>

\* pointerUp that ends the drag and its mode but keeps the anchor.
handleMouseUp_KeepsAnchor ==
    /\ isDragging' = FALSE
    /\ dragMode' = "none"
    /\ lastEvent' = "up"
    /\ notified' = FALSE
    /\ UNCHANGED <<image, canvas, cropRect, view, appImage, appCrop, dragStart,
                   nGestures, nWheel, ctxClip, pixels>>

handleMouseUp ==
    /\ isDragging' = FALSE
    /\ dragMode' = "none"
    /\ dragStart' = Null
    /\ lastEvent' = "up"
    /\ notified' = FALSE
    /\ UNCHANGED <<image, canvas, cropRect, view, appImage, appCrop,
                   nGestures, nWheel, ctxClip, pixels>>

\* ------------------------------------------------------------------------
\* CropEngine.handleWheel
\* ------------------------------------------------------------------------
\* The zoom factor multiplied and left unclamped.
ZoomStep_NoClamp(zoom, deltaYPositive) ==
    QMul(zoom, QAdd(Q(1), IF deltaYPositive THEN QSub(Q(0), zoomIntensity)
                                            ELSE zoomIntensity))

ZoomStep(zoom, deltaYPositive) ==
    LET delta == IF deltaYPositive THEN QSub(Q(0), zoomIntensity) ELSE zoomIntensity
    IN  QMax(MinZoom, QMin(MaxZoom, QMul(zoom, QAdd(Q(1), delta))))

\* The pan offset computed with the scale of before the zoom change.
ZoomAtPointer_OldScale(img, cv, vw, newZoom, mouse) ==
    LET imgPosBefore == canvasToImage(img, cv, vw, mouse[1], mouse[2])
        ts == totalScale(img, cv, vw)
    IN  [zoom |-> newZoom,
         panX |-> QSub(QSub(mouse[1], QNorm(cv[1], 2)),
                       QMul(QSub(imgPosBefore[1], QNorm(Val(img)[1], 2)), ts)),
         panY |-> QSub(QSub(mouse[2], QNorm(cv[2], 2)),
                       QMul(QSub(imgPosBefore[2], QNorm(Val(img)[2], 2)), ts))]

\* The camera after the zoom factor becomes newZoom with the pointer at
\* mouse: the pan offset is recomputed from the image point under the
\* pointer before the change and the scale after it.
ZoomAtPointer(img, cv, vw, newZoom, mouse) ==
    LET imgPosBefore == canvasToImage(img, cv, vw, mouse[1], mouse[2])
        newView == [vw EXCEPT !.zoom = newZoom]
        ts    == totalScale(img, cv, newView)
        cx    == QNorm(cv[1], 2)
        cy    == QNorm(cv[2], 2)
        imgCx == QNorm(Val(img)[1], 2)
        imgCy == QNorm(Val(img)[2], 2)
    IN  [zoom |-> newZoom,
         panX |-> QSub(QSub(mouse[1], cx), QMul(QSub(imgPosBefore[1], imgCx), ts)),
         panY |-> QSub(QSub(mouse[2], cy), QMul(QSub(imgPosBefore[2], imgCy), ts))]

\* A wheel handler that also takes the pointer as the gesture's anchor.
handleWheel_MovesAnchor(p, deltaYPositive) ==
    /\ nWheel < MaxWheel
    /\ nWheel' = nWheel + 1
    /\ notified' = FALSE
    /\ UNCHANGED <<image, canvas, cropRect, isDragging, dragMode,
                   appImage, appCrop, nGestures>>
    /\ IF image = Null
       THEN /\ lastEvent' = "wheel-ignored"
            /\ UNCHANGED <<view, dragStart, ctxClip, pixels>>
       ELSE /\ view' = ZoomAtPointer(image, canvas, view,
                                     ZoomStep(view.zoom, deltaYPositive),
                                     <<Q(p[1]), Q(p[2])>>)
            /\ dragStart' = IF isDragging THEN Some(<<Q(p[1]), Q(p[2])>>) ELSE dragStart
            /\ lastEvent' = "wheel"
            /\ render(Val(ctxClip), Val(pixels))

handleWheel(p, deltaYPositive) ==
    LET mouse == <<Q(p[1]), Q(p[2])>> IN
    /\ nWheel < MaxWheel
    /\ nWheel' = nWheel + 1
    /\ notified' = FALSE
    /\ UNCHANGED <<image, canvas, cropRect, isDragging, dragStart, dragMode,
                   appImage, appCrop, nGestures>>
    /\ IF image = Null
       THEN /\ lastEvent' = "wheel-ignored"
            /\ UNCHANGED <<view, ctxClip, pixels>>
       ELSE /\ view' = ZoomAtPointer(image, canvas, view,
                                     ZoomStep(view.zoom, deltaYPositive), mouse)
            /\ lastEvent' = "wheel"
            /\ render(Val(ctxClip), Val(pixels))

\* ------------------------------------------------------------------------
\* BatchProcessor.generateImage: the source rectangle of one preset
\* ------------------------------------------------------------------------
\* targetRatio as height / width.
targetRatio_Inverted(pw, ph) == QNorm(ph, pw)

targetRatio(pw, ph) == QNorm(pw, ph)
userRatio(userCrop) == QDiv(userCrop.width, userCrop.height)

\* ExpandToRatio with the comparison reversed: it holds the wrong side.
ExpandToRatio_Reversed(userCrop, tr) ==
    IF QLt(tr, QDiv(userCrop.width, userCrop.height))
    THEN <<QMul(userCrop.height, tr), userCrop.height>>
    ELSE <<userCrop.width, QDiv(userCrop.width, tr)>>

\* "Smart Auto-Fit": <<sourceW, sourceH>> of the crop expanded to the ratio.
ExpandToRatio(userCrop, tr) ==
    IF QGt(tr, userRatio(userCrop))
    THEN <<QMul(userCrop.height, tr), userCrop.height>>
    ELSE <<userCrop.width, QDiv(userCrop.width, tr)>>

\* ShrinkToImage that caps each side without recomputing the other.
ShrinkToImage_NoRecompute(img, size, tr) ==
    << QMin(size[1], Q(img[1])), QMin(size[2], Q(img[2])) >>

\* The two sequential bound checks, width first, then height.
ShrinkToImage(img, size, tr) ==
    LET s1 == IF QGt(size[1], Q(img[1]))
              THEN <<Q(img[1]), QDiv(Q(img[1]), tr)>>
              ELSE size
    IN  IF QGt(s1[2], Q(img[2]))
        THEN <<QMul(Q(img[2]), tr), Q(img[2])>>
        ELSE s1

\* CenterAndClamp without the shift at the right and bottom edges.
CenterAndClamp_NoFarShift(img, userCrop, size) ==
    LET cx == QAdd(userCrop.x, QHalf(userCrop.width))
        cy == QAdd(userCrop.y, QHalf(userCrop.height))
        x0 == QSub(cx, QHalf(size[1]))
        y0 == QSub(cy, QHalf(size[2]))
    IN  Rect(IF QLt(x0, Q(0)) THEN Q(0) ELSE x0,
             IF QLt(y0, Q(0)) THEN Q(0) ELSE y0, size[1], size[2])

\* CenterAndClamp that moves a box sticking out of the image to the origin.
CenterAndClamp_SnapsToOrigin(img, userCrop, size) ==
    LET x0 == QSub(QAdd(userCrop.x, QHalf(userCrop.width)), QHalf(size[1]))
        y0 == QSub(QAdd(userCrop.y, QHalf(userCrop.height)), QHalf(size[2]))
    IN  Rect(IF QLt(x0, Q(0)) \/ QGt(QAdd(x0, size[1]), Q(img[1])) THEN Q(0) ELSE x0,
             IF QLt(y0, Q(0)) \/ QGt(QAdd(y0, size[2]), Q(img[2])) THEN Q(0) ELSE y0,
             size[1], size[2])

\* Center on the crop's center, then shift into the image.
CenterAndClamp(img, userCrop, size) ==
    LET cx == QAdd(userCrop.x, QHalf(userCrop.width))
        cy == QAdd(userCrop.y, QHalf(userCrop.height))
        x0 == QSub(cx, QHalf(size[1]))
        y0 == QSub(cy, QHalf(size[2]))
        x1 == IF QLt(x0, Q(0)) THEN Q(0) ELSE x0
        y1 == IF QLt(y0, Q(0)) THEN Q(0) ELSE y0
        x2 == IF QGt(QAdd(x1, size[1]), Q(img[1])) THEN QSub(Q(img[1]), size[1]) ELSE x1
        y2 == IF QGt(QAdd(y1, size[2]), Q(img[2])) THEN QSub(Q(img[2]), size[2]) ELSE y1
    IN  Rect(x2, y2, size[1], size[2])

sourceRect(img, userCrop, pw, ph) ==
    LET tr == targetRatio(pw, ph)
    IN  CenterAndClamp(img, userCrop,
                       ShrinkToImage(img, ExpandToRatio(userCrop, tr), tr))

\* One call of generateImage on the arguments held in rfImage, rfCrop, rfPreset.
generateImage ==
    /\ rfImage # Null
    /\ rfSource = Null
    /\ rfSource' = Some(sourceRect(Val(rfImage), Val(rfCrop),
                                   Val(rfPreset)[1], Val(rfPreset)[2]))
    /\ UNCHANGED <<engineVars, exportVars, presetVars, loaderVars,
                   rfImage, rfCrop, rfPreset>>

\* ------------------------------------------------------------------------
\* PresetManager.getDefaultPresets.  A label is the sequence of its words
\* and whitespace characters.
\* ------------------------------------------------------------------------
Preset(id, w, h, label, lock) ==
    [id |-> id, width |-> w, height |-> h, label |-> label, lockAspectRatio |-> lock]

getDefaultPresets ==
    << Preset("1", 1080, 1080, <<"Instagram", " ", "Square">>, TRUE),
       Preset("2", 1080, 1350, <<"Instagram", " ", "Portrait">>, TRUE),
       Preset("3", 1200, 630,  <<"Facebook/Twitter">>, TRUE),
       Preset("4", 1920, 1080, <<"Full", " ", "HD">>, TRUE) >>

\* ------------------------------------------------------------------------
\* BatchProcessor.process and UIController.handleDownload
\* ------------------------------------------------------------------------
\* label.replace(/\s+/g, '_'): every run of whitespace becomes one "_".
RECURSIVE ReplaceWhitespace(_, _)
ReplaceWhitespace(label, inRun) ==
    IF label = <<>> THEN <<>>
    ELSE IF Head(label) = " "
         THEN (IF inRun THEN <<>> ELSE <<"_">>) \o ReplaceWhitespace(Tail(label), TRUE)
         ELSE <<Head(label)>> \o ReplaceWhitespace(Tail(label), FALSE)

filename(preset) ==
    <<ReplaceWhitespace(preset.label, FALSE), preset.width, preset.height>>

\* folder.file(name, blob): an entry of the same name is replaced.
ZipPut(zip, name, i) == { e \in zip : e[1] # name } \cup { <<name, i>> }

\* How far the synchronous part of one generateImage call gets: it throws
\* (drawImage, toBlob), returns null (no 2d context) or waits for toBlob.
SyncOutcomes == {"pending", "threw", "null"}

Fulfilled(t) == t.status \in {"blob", "null"}

\* Promise.all(promises) is rejected as soon as one promise is.
PromiseAllRejected(ts) == \E i \in DOMAIN ts : ts[i].status = "threw"

\* Promise.all taken for Promise.any: fulfilled once one promise is.
PromiseAll_AnyFulfilled(ts) == \E i \in DOMAIN ts : ts[i].status \in {"blob", "null"}

\* Promise.all(promises) is fulfilled once every promise is.
PromiseAllFulfilled(ts) == \A i \in DOMAIN ts : Fulfilled(ts[i])

\* The precondition test left out: no export is ever refused.
DownloadRefused_Never(img, crop) == FALSE

\* handleDownload's precondition test: no image or no crop.
DownloadRefused(img, crop) == img = Null \/ crop = Null

\* The download button's content in renderLayout.
DownloadLabel == "Download All"

\* handleDownload's finally block is skipped.
restoreButton_NotRun == UNCHANGED <<btnDisabled, btnHTML, originalText>>

\* handleDownload's finally block, which ends the call.
restoreButton ==
    /\ btnDisabled' = FALSE
    /\ btnHTML' = Val(originalText)
    /\ originalText' = Null

\* The click handler up to its first await.
handleDownload ==
    /\ ~btnDisabled
    /\ IF DownloadRefused(appImage, appCrop)
       THEN /\ alertMsg' = "Please upload an image first."
            /\ UNCHANGED <<btnDisabled, btnHTML, originalText, exportPhase, archive,
                           clickImage, clickCrop>>
       ELSE /\ originalText' = Some(btnHTML)
            /\ btnDisabled' = TRUE
            /\ btnHTML' = "Processing..."
            /\ exportPhase' = "delay"
            /\ archive' = Null
            /\ clickImage' = appImage
            /\ clickCrop' = appCrop
            /\ UNCHANGED alertMsg
    /\ UNCHANGED <<engineVars, rfVars, presetVars, loaderVars, appPresets, tasks, zipFiles>>

\* After the two delays: process() maps the presets to promises, each
\* running generateImage up to its await, and awaits Promise.all.  A
\* rejected Promise.all ends handleDownload (catch, finally) in the same
\* turn, while the pending promises of the call go on.  Promises still
\* pending from an earlier, failed call write to that call's own zip, which
\* nothing reads: they are dropped here.
processStart(outcome) ==
    /\ exportPhase = "delay"
    /\ tasks' = [i \in DOMAIN appPresets |->
                   [preset |-> appPresets[i],
                    userCrop |-> Val(appCrop),
                    source |-> sourceRect(Val(appImage), Val(appCrop),
                                          appPresets[i].width, appPresets[i].height),
                    status |-> outcome[i]]]
    /\ zipFiles' = {}
    /\ IF PromiseAllRejected(tasks')
       THEN /\ alertMsg' = "Error processing images"
            /\ restoreButton
            /\ exportPhase' = "failed"
       ELSE /\ exportPhase' = IF PromiseAllFulfilled(tasks') THEN "zipping" ELSE "awaitAll"
            /\ UNCHANGED <<alertMsg, btnDisabled, btnHTML, originalText>>
    /\ UNCHANGED <<engineVars, rfVars, presetVars, loaderVars, appPresets, archive,
                   clickImage, clickCrop>>

\* canvas.toBlob calls back for task i, with a blob or with null; the
\* promise's continuation files the blob, and Promise.all may settle.
toBlobCallback(i, gotBlob) ==
    /\ i \in DOMAIN tasks
    /\ tasks[i].status = "pending"
    /\ tasks' = [tasks EXCEPT ![i].status = IF gotBlob THEN "blob" ELSE "null"]
    /\ zipFiles' = IF gotBlob THEN ZipPut(zipFiles, filename(tasks[i].preset), i)
                   ELSE zipFiles
    /\ exportPhase' = IF exportPhase = "awaitAll" /\ PromiseAllFulfilled(tasks')
                      THEN "zipping" ELSE exportPhase
    /\ UNCHANGED <<engineVars, rfVars, presetVars, loaderVars, appPresets, btnDisabled,
                   btnHTML, originalText, archive, alertMsg, clickImage, clickCrop>>

\* zip.generateAsync settles.  Resolved: saveAs, then handleDownload's
\* finally.  Rejected: handleDownload's catch, then its finally.
zipGenerated(resolved) ==
    /\ exportPhase = "zipping"
    /\ IF resolved
       THEN /\ archive' = Some(zipFiles)
            /\ exportPhase' = "saved"
            /\ UNCHANGED alertMsg
       ELSE /\ alertMsg' = "Error processing images"
            /\ exportPhase' = "failed"
            /\ UNCHANGED archive
    /\ restoreButton
    /\ UNCHANGED <<engineVars, rfVars, presetVars, loaderVars, appPresets, tasks, zipFiles,
                   clickImage, clickCrop>>

\* ------------------------------------------------------------------------
\* PresetManager.addPreset and the add-preset button
\* ------------------------------------------------------------------------
\* PresetManager.savePresets: the list is written to the store and, unless
\* silent, handed to onPresetsChanged.
\* UIController.renderPresetsList: one row per preset of the application
\* state; the row's handlers keep the preset object of this moment.
renderPresetsList(list) ==
    [i \in DOMAIN list |-> [preset |-> list[i], checked |-> list[i].lockAspectRatio]]

\* UIController.onPresetsChanged.
onPresetsChanged(list) ==
    /\ appPresets' = list
    /\ rows' = renderPresetsList(list)

\* The two values of a preset's width and height that are not integers:
\* NaN, which parseInt gives for a text without leading digits, and the
\* null JSON has in its place.  They are kept apart from every number an
\* input field or a rescaling yields by being negative.
NaN    == -1
JsNull == -2

\* JSON.stringify(presets): JSON has no NaN and writes null for it.
JSONstringify(list) ==
    [i \in DOMAIN list |->
        [list[i] EXCEPT !.width  = IF @ = NaN THEN JsNull ELSE @,
                        !.height = IF @ = NaN THEN JsNull ELSE @]]

\* After a silent save the caller goes on with the application state.
savePresets(list, silent) ==
    /\ stored' = Some(JSONstringify(list))
    /\ IF silent THEN TRUE ELSE onPresetsChanged(list)

addPreset(preset) ==
    /\ presets' = Append(presets, preset)
    /\ savePresets(presets', FALSE)

\* Date.now() at the n-th click on the button: later than at the one before.
DateNow(n) == 1000 + n

\* The click handler of the add-preset button.
addPresetClick ==
    /\ nAdds < MaxAdds
    /\ nAdds' = nAdds + 1
    /\ addPreset(Preset(ToString(DateNow(nAdds')), 1080, 1080,
                        <<"New", " ", "Size">>, TRUE))
    /\ UNCHANGED <<nEdits, lastChange>>
    /\ UNCHANGED <<engineVars, rfVars, loaderVars, btnDisabled, btnHTML, originalText,
                   exportPhase, tasks,
                   zipFiles, archive, alertMsg, clickImage, clickCrop>>

\* ------------------------------------------------------------------------
\* The rows of the preset list: PresetManager.removePreset and
\* updatePreset, and the handlers renderPresetsList binds
\* ------------------------------------------------------------------------
\* { ...p, ...updates }
Merge(p, updates) ==
    [k \in DOMAIN p |-> IF k \in DOMAIN updates THEN updates[k] ELSE p[k]]

removePreset(id) ==
    /\ presets' = SelectSeq(presets, LAMBDA p : p.id # id)
    /\ savePresets(presets', FALSE)

updatePreset(id, updates, silent) ==
    /\ presets' = [i \in DOMAIN presets |->
                     IF presets[i].id = id THEN Merge(presets[i], updates)
                     ELSE presets[i]]
    /\ savePresets(presets', silent)

\* Math.round of a positive rational.
MathRound(q) == (2 * q[1] + q[2]) \div (2 * q[2])

\* parseInt(text) of a text of decimal digits: the number they write, NaN
\* for the empty text.
DigitValue(c) ==
    CASE c = "0" -> 0 [] c = "1" -> 1 [] c = "2" -> 2 [] c = "3" -> 3 [] c = "4" -> 4
      [] c = "5" -> 5 [] c = "6" -> 6 [] c = "7" -> 7 [] c = "8" -> 8 [] c = "9" -> 9

RECURSIVE DigitsValue(_)
DigitsValue(text) ==
    IF text = <<>> THEN 0
    ELSE 10 * DigitsValue(SubSeq(text, 1, Len(text) - 1)) + DigitValue(text[Len(text)])

parseInt(text) == IF text = <<>> THEN NaN ELSE DigitsValue(text)

\* The updates a change of width, height or label makes: with the row's
\* preset locked, the other dimension follows in that preset's ratio.
\* Arithmetic on NaN gives NaN; null counts as 0 and, the quotient then
\* being 0, infinite or NaN, is left to the presets that were never
\* reloaded with it.
RowUpdates(preset, field, val) ==
    LET nan   == NaN \in {val, preset.width, preset.height}
        ratio == IF nan THEN Q(1) ELSE QDiv(Q(preset.width), Q(preset.height))
    IN IF preset.lockAspectRatio /\ field = "width"
         THEN [width |-> val,
               height |-> IF nan THEN NaN ELSE MathRound(QDiv(Q(val), ratio))]
       ELSE IF preset.lockAspectRatio /\ field = "height"
         THEN [height |-> val,
               width |-> IF nan THEN NaN ELSE MathRound(QMul(Q(val), ratio))]
       ELSE [f \in {field} |-> val]

\* The change handler of the inputs of row i.  For the checkbox val is
\* target.checked, for width and height parseInt(target.value).
changeHandler(i, field, val) ==
    LET preset == rows[i].preset IN
    /\ nEdits < MaxEdits
    /\ nEdits' = nEdits + 1
    /\ lastChange' = Some(<<preset.id, field, val>>)
    /\ IF field = "lockAspectRatio"
       THEN /\ updatePreset(preset.id, [lockAspectRatio |-> val], TRUE)
            /\ rows' = [rows EXCEPT ![i].checked = val]
       ELSE /\ updatePreset(preset.id, RowUpdates(preset, field, val), TRUE)
            /\ UNCHANGED rows
    /\ appPresets' = presets'
    /\ UNCHANGED <<engineVars, rfVars, loaderVars, nAdds, btnDisabled, btnHTML,
                   originalText, exportPhase,
                   tasks, zipFiles, archive, alertMsg, clickImage, clickCrop>>

\* The click handler of the delete button of row i.
deleteClick(i) ==
    /\ removePreset(rows[i].preset.id)
    /\ UNCHANGED <<engineVars, rfVars, loaderVars, nAdds, nEdits, lastChange,
                   btnDisabled, btnHTML, originalText, exportPhase, tasks, zipFiles,
                   archive, alertMsg,
                   clickImage, clickCrop>>

\* ------------------------------------------------------------------------
\* ImageLoader.handleFile: a FileReader reads the file, an Image decodes
\* the data URL, and its onload hands the image to onImageLoaded.  Each
\* call has its own reader and image; nothing orders the completions of
\* two calls.  A file is <<is an image, width, height>>.
\* ------------------------------------------------------------------------
handleFile(file) ==
    /\ Len(loads) < MaxFiles
    /\ IF ~file[1]
       THEN /\ alertMsg' = "Please upload an image file."
            /\ UNCHANGED loads
       ELSE /\ loads' = Append(loads, [file |-> file, phase |-> "reading"])
            /\ UNCHANGED alertMsg
    /\ UNCHANGED <<engineVars, rfVars, presetVars, appPresets, btnDisabled,
                   btnHTML, originalText,
                   exportPhase, tasks, zipFiles, archive, clickImage, clickCrop>>

\* reader.onload of the i-th call: the Image is created and given its src.
readerOnload(i) ==
    /\ i \in DOMAIN loads
    /\ loads[i].phase = "reading"
    /\ loads' = [loads EXCEPT ![i].phase = "decoding"]
    /\ UNCHANGED <<engineVars, rfVars, exportVars, presetVars>>

\* img.onload of the i-th call: onImageLoaded(img, file).
imgOnload(i, cv) ==
    /\ i \in DOMAIN loads
    /\ loads[i].phase = "decoding"
    /\ loads' = [loads EXCEPT ![i].phase = "done"]
    /\ onImageLoaded(<<loads[i].file[2], loads[i].file[3]>>, cv)
    /\ UNCHANGED <<rfVars, exportVars, presetVars>>

\* ------------------------------------------------------------------------
\* The interactive session: image loads, pointer and wheel events
\* ------------------------------------------------------------------------
EngineIdle ==
    /\ image = Null
    /\ canvas = <<0, 0>>
    /\ cropRect = Null
    /\ isDragging = FALSE
    /\ dragStart = Null
    /\ dragMode = "none"
    /\ view = ResetView
    /\ appImage = Null
    /\ appCrop = Null
    /\ lastEvent = "none"
    /\ notified = FALSE
    /\ nGestures = 0
    /\ nWheel = 0

\* The engine before the first image, the drawing surface not followed.
EngineInit ==
    /\ EngineIdle
    /\ ctxClip = Null
    /\ pixels = Null

RfIdle ==
    /\ rfImage = Null
    /\ rfCrop = Null
    /\ rfPreset = Null
    /\ rfSource = Null

\* PresetManager.loadPresets: JSON.parse of the stored list, which reads a
\* null as null, or the defaults without a stored list.
loadPresets(item) == IF item = Null THEN getDefaultPresets ELSE Val(item)

\* UIController's constructor: PresetManager loads the presets and hands
\* them to onPresetsChanged.
ExportInitWith(item) ==
    /\ stored = item
    /\ presets = loadPresets(item)
    /\ appPresets = presets
    /\ nAdds = 0
    /\ rows = renderPresetsList(appPresets)
    /\ nEdits = 0
    /\ lastChange = Null
    /\ clickImage = Null
    /\ clickCrop = Null
    /\ loads = <<>>
    /\ btnDisabled = FALSE
    /\ btnHTML = DownloadLabel
    /\ originalText = Null
    /\ exportPhase = "idle"
    /\ tasks = <<>>
    /\ zipFiles = {}
    /\ archive = Null
    /\ alertMsg = "none"

ExportInit == ExportInitWith(Null)

Init == EngineInit /\ RfIdle /\ ExportInit

LoadImage  == \E img \in Images, cv \in CanvasSizes : onImageLoaded(img, cv)
MouseDown  == \E p \in Points : handleMouseDown(p)
MouseMove  == \E p \in Points : handleMouseMove(p)
MouseUp    == handleMouseUp
Wheel      == \E p \in WheelPoints, d \in BOOLEAN : handleWheel(p, d)

Next ==
    \/ LoadImage /\ UNCHANGED <<rfVars, exportVars, presetVars, loaderVars>>
    \/ MouseDown /\ UNCHANGED <<rfVars, exportVars, presetVars, loaderVars>>
    \/ MouseMove /\ UNCHANGED <<rfVars, exportVars, presetVars, loaderVars>>
    \/ MouseUp /\ UNCHANGED <<rfVars, exportVars, presetVars, loaderVars>>
    \/ Wheel /\ UNCHANGED <<rfVars, exportVars, presetVars, loaderVars>>

Spec == Init /\ [][Next]_vars

\* ------------------------------------------------------------------------
\* The re-framer on its own: generateImage on every argument of the sets
\* ------------------------------------------------------------------------
RfImages  == { <<8, 4>>, <<4, 8>>, <<6, 6>> }
RfOrigins == { Q(-1), Q(0), <<1, 2>>, Q(3) }
RfSizes   == { Q(1), Q(2), Q(3), Q(4), Q(9) }
RfPresets == { <<1, 1>>, <<2, 1>>, <<1, 3>>, <<16, 9>>, <<1080, 1350>>, <<1200, 630>> }

InitReframe ==
    /\ EngineInit
    /\ ExportInit
    /\ rfImage \in { Some(i) : i \in RfImages }
    /\ rfCrop \in { Some(Rect(x, y, w, h)) :
                      x \in RfOrigins, y \in RfOrigins, w \in RfSizes, h \in RfSizes }
    /\ rfPreset \in { Some(p) : p \in RfPresets }
    /\ rfSource = Null

NextReframe == generateImage

SpecReframe == InitReframe /\ [][NextReframe]_vars

\* ------------------------------------------------------------------------
\* An export session: one image, a few pointer positions, and the export
\* with every outcome and every order of the per-preset tasks
\* ------------------------------------------------------------------------
ExportImages == { <<100, 200>> }
\* A pointerDown inside the crop and a pointerMove away from it.
ExportDownPoints == { <<90, 90>> }
ExportMovePoints == { <<120, 120>> }
\* Preset lists found in the store at start-up.
StoredPresets ==
    { Some(<<getDefaultPresets[1], getDefaultPresets[3]>>),
      Some(<<getDefaultPresets[2], getDefaultPresets[3], getDefaultPresets[4]>>) }

InitExport == EngineInit /\ RfIdle /\ \E item \in StoredPresets : ExportInitWith(item)

LoadImageX   == \E img \in ExportImages, cv \in CanvasSizes : onImageLoaded(img, cv)
MouseDownX   == \E p \in ExportDownPoints : handleMouseDown(p)
MouseMoveX   == \E p \in ExportMovePoints : handleMouseMove(p)
Download     == handleDownload
ProcessStart == \E outcome \in [DOMAIN appPresets -> SyncOutcomes] : processStart(outcome)
ToBlob       == \E i \in DOMAIN tasks, gotBlob \in BOOLEAN : toBlobCallback(i, gotBlob)
ZipGenerated == \E resolved \in BOOLEAN : zipGenerated(resolved)

NextExport ==
    \/ LoadImageX /\ UNCHANGED <<rfVars, exportVars, presetVars, loaderVars>>
    \/ MouseDownX /\ UNCHANGED <<rfVars, exportVars, presetVars, loaderVars>>
    \/ MouseMoveX /\ UNCHANGED <<rfVars, exportVars, presetVars, loaderVars>>
    \/ MouseUp /\ UNCHANGED <<rfVars, exportVars, presetVars, loaderVars>>
    \/ Download
    \/ ProcessStart
    \/ ToBlob
    \/ ZipGenerated

SpecExport == InitExport /\ [][NextExport]_vars

\* The same session on a store of two presets, with the browser's
\* guarantees: the animation frame and the timer handleDownload waits for
\* fire, canvas.toBlob calls back, and zip.generateAsync settles.  Nothing
\* is assumed of the user's events.  ProcessStart is enabled exactly in the
\* delay and is the only step out of it, so that weak fairness of
\* ProcessStart is: the export is not in its delay for ever.
StoredPair == { Some(<<getDefaultPresets[1], getDefaultPresets[3]>>) }

InitExportFair == EngineInit /\ RfIdle /\ \E item \in StoredPair : ExportInitWith(item)

SpecExportFair ==
    /\ InitExportFair
    /\ [][NextExport]_vars
    /\ []<>(exportPhase # "delay")
    /\ WF_vars(ToBlob)
    /\ WF_vars(ZipGenerated)

\* ------------------------------------------------------------------------
\* A preset session: presets are added to a short stored list, and the
\* list is exported
\* ------------------------------------------------------------------------
\* The store holds one preset at start-up.
StoredShort == { Some(<<getDefaultPresets[1]>>), Some(<<getDefaultPresets[3]>>) }

InitPresets == EngineInit /\ RfIdle /\ \E item \in StoredShort : ExportInitWith(item)

AddPreset == addPresetClick

NextPresets ==
    \/ LoadImageX /\ UNCHANGED <<rfVars, exportVars, presetVars, loaderVars>>
    \/ AddPreset
    \/ Download
    \/ ProcessStart
    \/ ToBlob
    \/ ZipGenerated

SpecPresets == InitPresets /\ [][NextPresets]_vars

\* ------------------------------------------------------------------------
\* A camera session: the engine as the wheel has left it at the centre of
\* the canvas, at the initial zoom or at either limit of the zoom range,
\* followed by wheel, pointer and load events
\* ------------------------------------------------------------------------
\* Zoom factors that wheel events at the canvas centre lead to from 1:
\* 25 steps up end at the upper limit, 22 steps down at the lower one.
ZoomStarts == { Q(1), MinZoom, MaxZoom }
\* Pointer positions of the pointerDown and pointerMove events.
CamPoints == { <<90, 90>>, <<160, 160>>, <<60, 120>> }

\* An image has been loaded and the wheel turned at the canvas centre,
\* which leaves the pan offset at zero.  The event counters count from here.
InitCamera ==
    /\ RfIdle
    /\ ExportInit
    /\ \E img \in Images, cv \in CanvasSizes, z \in ZoomStarts :
          /\ image = Some(img)
          /\ appImage = Some(img)
          /\ canvas = cv
          /\ cropRect = Some(DefaultCrop(img))
          /\ appCrop = cropRect
          /\ view = [zoom |-> z, panX |-> Q(0), panY |-> Q(0)]
          /\ lastEvent = IF z = Q(1) THEN "load" ELSE "wheel"
          /\ notified = (z = Q(1))
    /\ ctxClip = Null
    /\ pixels = Null
    /\ isDragging = FALSE
    /\ dragStart = Null
    /\ dragMode = "none"
    /\ nGestures = 0
    /\ nWheel = 0

WheelAnywhere == \E p \in Points, d \in BOOLEAN : handleWheel(p, d)
MouseDownCam  == \E p \in CamPoints : handleMouseDown(p)
MouseMoveCam  == \E p \in CamPoints : handleMouseMove(p)

NextCamera ==
    \/ LoadImage /\ UNCHANGED <<rfVars, exportVars, presetVars, loaderVars>>
    \/ WheelAnywhere /\ UNCHANGED <<rfVars, exportVars, presetVars, loaderVars>>
    \/ MouseDownCam /\ UNCHANGED <<rfVars, exportVars, presetVars, loaderVars>>
    \/ MouseMoveCam /\ UNCHANGED <<rfVars, exportVars, presetVars, loaderVars>>
    \/ MouseUp /\ UNCHANGED <<rfVars, exportVars, presetVars, loaderVars>>

SpecCamera == InitCamera /\ [][NextCamera]_vars

\* ------------------------------------------------------------------------
\* A viewport session: images are loaded into containers of any size, the
\* window is resized, and pointer and wheel events follow
\* ------------------------------------------------------------------------
ViewportImages == { <<100, 100>> }
\* Container sizes: one that leaves room for the margins, one that leaves
\* exactly none, one that is narrower than the margins.
ViewportSizes  == { <<180, 180>>, <<80, 80>>, <<60, 200>> }
ViewportPoints == { <<40, 40>>, <<75, 75>> }
ViewportWheelPoints == { <<40, 40>> }

LoadImageV == \E img \in ViewportImages, cv \in ViewportSizes : onImageLoaded(img, cv)
ResizeV    == \E cv \in ViewportSizes : handleResize(cv)
MouseDownV == \E p \in ViewportPoints : handleMouseDown(p)
MouseMoveV == \E p \in ViewportPoints : handleMouseMove(p)
WheelV     == \E p \in ViewportWheelPoints, d \in BOOLEAN : handleWheel(p, d)

NextViewport ==
    \/ LoadImageV /\ UNCHANGED <<rfVars, exportVars, presetVars, loaderVars>>
    \/ ResizeV /\ UNCHANGED <<rfVars, exportVars, presetVars, loaderVars>>
    \/ MouseDownV /\ UNCHANGED <<rfVars, exportVars, presetVars, loaderVars>>
    \/ MouseMoveV /\ UNCHANGED <<rfVars, exportVars, presetVars, loaderVars>>
    \/ MouseUp /\ UNCHANGED <<rfVars, exportVars, presetVars, loaderVars>>
    \/ WheelV /\ UNCHANGED <<rfVars, exportVars, presetVars, loaderVars>>

SpecViewport == Init /\ [][NextViewport]_vars

\* ------------------------------------------------------------------------
\* A drawing session: the engine's events with the canvas bitmap and the
\* context's clip region followed
\* ------------------------------------------------------------------------
RenderImages     == { <<100, 100>> }
RenderDownPoints == { <<90, 90>>, <<160, 160>> }
RenderMovePoints == { <<120, 120>>, <<60, 60>> }
RenderWheelPoints == { <<90, 90>> }

\* Before the first image there is no engine; the canvas has no sampled
\* pixel and nothing is drawn.
InitRender ==
    /\ EngineIdle
    /\ ctxClip = Some(FullClip(canvas))
    /\ pixels = Some(BlankBitmap)
    /\ RfIdle
    /\ ExportInit

LoadImageR == \E img \in RenderImages, cv \in CanvasSizes : onImageLoaded(img, cv)
ResizeR    == \E cv \in CanvasSizes : handleResize(cv)
MouseDownR == \E p \in RenderDownPoints : handleMouseDown(p)
MouseMoveR == \E p \in RenderMovePoints : handleMouseMove(p)
WheelR     == \E p \in RenderWheelPoints, d \in BOOLEAN : handleWheel(p, d)

NextRender ==
    \/ LoadImageR /\ UNCHANGED <<rfVars, exportVars, presetVars, loaderVars>>
    \/ ResizeR /\ UNCHANGED <<rfVars, exportVars, presetVars, loaderVars>>
    \/ MouseDownR /\ UNCHANGED <<rfVars, exportVars, presetVars, loaderVars>>
    \/ MouseMoveR /\ UNCHANGED <<rfVars, exportVars, presetVars, loaderVars>>
    \/ MouseUp /\ UNCHANGED <<rfVars, exportVars, presetVars, loaderVars>>
    \/ WheelR /\ UNCHANGED <<rfVars, exportVars, presetVars, loaderVars>>

SpecRender == InitRender /\ [][NextRender]_vars

\* ------------------------------------------------------------------------
\* A loading session: files are dropped one after the other, and pointer
\* events go on between the completions of their loads
\* ------------------------------------------------------------------------
Files == { <<TRUE, 100, 100>>, <<TRUE, 100, 200>>, <<TRUE, 10, 10>>, <<FALSE, 0, 0>> }
LoaderPoints == { <<90, 90>>, <<120, 120>> }

\* A drop on, or a file chosen through, the drop zone, which onImageLoaded
\* hides: files arrive only until the first load has completed.
HandleFile   == appImage = Null /\ \E f \in Files : handleFile(f)
ReaderOnload == \E i \in DOMAIN loads : readerOnload(i)
ImgOnload    == \E i \in DOMAIN loads, cv \in CanvasSizes : imgOnload(i, cv)
MouseDownL   == \E p \in LoaderPoints : handleMouseDown(p)
MouseMoveL   == \E p \in LoaderPoints : handleMouseMove(p)

NextLoader ==
    \/ HandleFile
    \/ ReaderOnload
    \/ ImgOnload
    \/ MouseDownL /\ UNCHANGED <<rfVars, exportVars, presetVars, loaderVars>>
    \/ MouseMoveL /\ UNCHANGED <<rfVars, exportVars, presetVars, loaderVars>>
    \/ MouseUp /\ UNCHANGED <<rfVars, exportVars, presetVars, loaderVars>>

SpecLoader == Init /\ [][NextLoader]_vars

\* ------------------------------------------------------------------------
\* An editing session on the preset list
\* ------------------------------------------------------------------------
StoredEdits ==
    { Some(<<getDefaultPresets[3]>>),
      Some(<<[getDefaultPresets[2] EXCEPT !.lockAspectRatio = FALSE]>>) }
\* What the user leaves in a width or height field: a number, or nothing.
EditTexts == { <<"5", "4", "0">>, <<"2", "0", "0", "0">>, <<>> }
EditLabels == { <<"Banner">> }

InitEdits == EngineInit /\ RfIdle /\ \E item \in StoredEdits : ExportInitWith(item)

ChangeLock ==
    \E i \in DOMAIN rows : changeHandler(i, "lockAspectRatio", ~rows[i].checked)
ChangeWidth ==
    \E i \in DOMAIN rows, text \in EditTexts : changeHandler(i, "width", parseInt(text))
ChangeHeight ==
    \E i \in DOMAIN rows, text \in EditTexts : changeHandler(i, "height", parseInt(text))
ChangeLabel ==
    \E i \in DOMAIN rows, val \in EditLabels : changeHandler(i, "label", val)
DeleteClick == \E i \in DOMAIN rows : deleteClick(i)

NextEdits ==
    \/ ChangeLock
    \/ ChangeWidth
    \/ ChangeHeight
    \/ ChangeLabel
    \/ AddPreset
    \/ DeleteClick

SpecEdits == InitEdits /\ [][NextEdits]_vars

\* ------------------------------------------------------------------------
\* Properties
\* ------------------------------------------------------------------------
InsideImage(img, r) ==
    /\ QLe(Q(0), r.x)
    /\ QLe(Q(0), r.y)
    /\ QLe(QAdd(r.x, r.width), Q(img[1]))
    /\ QLe(QAdd(r.y, r.height), Q(img[2]))

\* The last event was a pointerMove that mutated the crop in mode m.
MovedIn(m) == lastEvent = "move" /\ dragMode = m /\ image # Null /\ cropRect # Null

\* C1: after a pointerMove that mutates the crop in `moving` or any
\* `resizing(corner)` mode, the crop rectangle lies inside the image:
\* 0 <= x, 0 <= y, x + width <= image.width, y + height <= image.height.
C1_CropInsideImageAfterMove ==
    (\E m \in ResizeModes \cup {"move"} : MovedIn(m))
        => InsideImage(Val(image), Val(cropRect))

\* The corner opposite to the one a resize mode drags.
OppositeCorner(mode, r) ==
    CASE mode = "resize-br" -> <<r.x, r.y>>
      [] mode = "resize-tl" -> <<QAdd(r.x, r.width), QAdd(r.y, r.height)>>
      [] mode = "resize-tr" -> <<r.x, QAdd(r.y, r.height)>>
      [] mode = "resize-bl" -> <<QAdd(r.x, r.width), r.y>>

\* C2: every pointerMove handled in a resizing mode leaves the corner
\* opposite to the dragged one where it was, so across a resize gesture
\* (pointerDown, pointerMoves, pointerUp) that corner never moves.
C2_OppositeCornerFixed ==
    [][ (lastEvent' = "move" /\ dragMode \in ResizeModes /\ MoveGuard)
          => OppositeCorner(dragMode, Val(cropRect'))
               = OppositeCorner(dragMode, Val(cropRect)) ]_vars

\* A tl-resize has moved the dragged corner away from the default crop's.
C2_Witness ==
    /\ MovedIn("resize-tl")
    /\ Val(cropRect).x # DefaultCrop(Val(image)).x
    /\ Val(cropRect).width # DefaultCrop(Val(image)).width

\* C3: for an image whose default crop side is at least MIN_SIZE, the crop
\* has width >= MIN_SIZE and height >= MIN_SIZE after any sequence of
\* gestures.
C3_MinSizeKept ==
    (/\ image # Null
     /\ cropRect # Null
     /\ QGe(DefaultCrop(Val(image)).width, Q(MIN_SIZE)))
        => /\ QGe(Val(cropRect).width, Q(MIN_SIZE))
           /\ QGe(Val(cropRect).height, Q(MIN_SIZE))

\* A br-resize whose pointer lies beyond the fixed corner (x, y): the floor
\* has set the width to MIN_SIZE.
C3_Witness ==
    /\ MovedIn("resize-br")
    /\ QGe(DefaultCrop(Val(image)).width, Q(MIN_SIZE))
    /\ Val(cropRect).width = Q(MIN_SIZE)
    /\ Val(cropRect).height = Q(MIN_SIZE)

\* C4: every pointerMove handled in `moving` mode leaves cropRect.x in
\* [0, image.width - width] and cropRect.y in [0, image.height - height],
\* and leaves the crop's width and height unchanged.
C4_MoveStaysInsideKeepsSize ==
    [][ (lastEvent' = "move" /\ dragMode = "move" /\ MoveGuard)
          => LET r == Val(cropRect')
                 W == Q(Val(image)[1])
                 H == Q(Val(image)[2])
             IN  /\ QLe(Q(0), r.x) /\ QLe(r.x, QSub(W, r.width))
                 /\ QLe(Q(0), r.y) /\ QLe(r.y, QSub(H, r.height))
                 /\ r.width = Val(cropRect).width
                 /\ r.height = Val(cropRect).height ]_vars

RfDone == rfSource # Null

\* C5: for every user crop and target size with positive dimensions the
\* source rectangle lies inside the image.
C5_SourceInsideImage ==
    RfDone => InsideImage(Val(rfImage), Val(rfSource))

\* The crop is wider than the image and sticks out of it on both sides.
C5_Witness ==
    /\ RfDone
    /\ QGt(Val(rfCrop).width, Q(Val(rfImage)[1]))
    /\ QLt(Val(rfCrop).x, Q(0))
    /\ QGt(QAdd(Val(rfCrop).y, Val(rfCrop).height), Q(Val(rfImage)[2]))

\* C6: the source rectangle has exactly the target aspect ratio,
\* sourceW * targetH = sourceH * targetW.
C6_SourceHasTargetRatio ==
    RfDone => QMul(Val(rfSource).width, Q(Val(rfPreset)[2]))
                = QMul(Val(rfSource).height, Q(Val(rfPreset)[1]))

\* Both bound checks fire: the expanded width exceeds the image's, and the
\* height recomputed from the image's width exceeds the image's height.
C6_Witness ==
    /\ RfDone
    /\ LET tr == QNorm(Val(rfPreset)[1], Val(rfPreset)[2])
           c  == Val(rfCrop)
           ew == IF QGt(tr, QDiv(c.width, c.height))
                 THEN QMul(c.height, tr) ELSE c.width
       IN  /\ QGt(ew, Q(Val(rfImage)[1]))
           /\ QGt(QDiv(Q(Val(rfImage)[1]), tr), Q(Val(rfImage)[2]))

\* The user crop expanded to the target ratio: hold the height and widen
\* if targetRatio > userRatio, else hold the width and heighten.
ExpandedCrop(c, p) ==
    IF p[1] * c.height[1] * c.width[2] > p[2] * c.width[1] * c.height[2]
    THEN <<QMul(c.height, QNorm(p[1], p[2])), c.height>>
    ELSE <<c.width, QMul(c.width, QNorm(p[2], p[1]))>>

ExpansionFits ==
    /\ InsideImage(Val(rfImage), Val(rfCrop))
    /\ QLe(ExpandedCrop(Val(rfCrop), Val(rfPreset))[1], Q(Val(rfImage)[1]))
    /\ QLe(ExpandedCrop(Val(rfCrop), Val(rfPreset))[2], Q(Val(rfImage)[2]))

\* C7: when the user crop lies inside the image and its expansion to the
\* target ratio exceeds neither image.width nor image.height, the source
\* rectangle contains the whole user crop.
C7_SourceContainsCrop ==
    (RfDone /\ ExpansionFits)
        => LET s == Val(rfSource)
               c == Val(rfCrop)
           IN  /\ QLe(s.x, c.x)
               /\ QLe(s.y, c.y)
               /\ QGe(QAdd(s.x, s.width), QAdd(c.x, c.width))
               /\ QGe(QAdd(s.y, s.height), QAdd(c.y, c.height))

\* The expansion is a real one and the clamp has shifted it off the crop's
\* center.
C7_Witness ==
    /\ RfDone
    /\ ExpansionFits
    /\ QGt(Val(rfSource).width, Val(rfCrop).width)
    /\ QAdd(Val(rfSource).x, QHalf(Val(rfSource).width))
         # QAdd(Val(rfCrop).x, QHalf(Val(rfCrop).width))

SameRatio ==
    QMul(Q(Val(rfPreset)[1]), Val(rfCrop).height)
        = QMul(Q(Val(rfPreset)[2]), Val(rfCrop).width)

\* C8: when the target ratio equals the user crop's ratio and the crop lies
\* inside the image, the source rectangle equals the user crop.
C8_SameRatioKeepsCrop ==
    (RfDone /\ SameRatio /\ InsideImage(Val(rfImage), Val(rfCrop)))
        => Val(rfSource) = Val(rfCrop)

\* A crop that is not square, with a target of its ratio and another size.
C8_Witness ==
    /\ RfDone
    /\ SameRatio
    /\ InsideImage(Val(rfImage), Val(rfCrop))
    /\ Val(rfCrop).width # Val(rfCrop).height
    /\ Q(Val(rfPreset)[1]) # Val(rfCrop).width

\* The latest export has ended: handleDownload has run its finally block.
ExportOver == exportPhase \in {"saved", "failed"}

Archived(i) ==
    /\ archive # Null
    /\ <<filename(tasks[i].preset), i>> \in Val(archive)

\* C9: a failure of one preset (its rasterization throws or yields no
\* raster) does not abort the others: once the export has ended, every preset
\* whose rasterization succeeded is in the packaged archive, a failed preset
\* is not, and a failure has been reported.
C9_FailureDoesNotAbortOthers ==
    ExportOver =>
        /\ \A i \in DOMAIN tasks : tasks[i].status = "blob" => Archived(i)
        /\ \A i \in DOMAIN tasks : tasks[i].status \in {"threw", "null"} => ~Archived(i)
        /\ (\E i \in DOMAIN tasks : tasks[i].status \in {"threw", "null"})
              => alertMsg = "Error processing images"

\* C10: packaging (zip.generateAsync, then saveAs) starts only when every
\* per-preset task of the export has finished.
C10_PackagingAfterAllTasks ==
    exportPhase \in {"zipping", "saved"}
        => \A i \in DOMAIN tasks : tasks[i].status # "pending"

\* Packaging has started on an export of three presets whose toBlob
\* callbacks have delivered two blobs and one null.
C10_Witness ==
    /\ exportPhase = "zipping"
    /\ Len(tasks) = 3
    /\ Cardinality(zipFiles) = 2
    /\ \E i \in DOMAIN tasks : tasks[i].status = "null"

\* process() has been called for the latest export request.
ExportStarted == exportPhase \in {"awaitAll", "zipping", "saved", "failed"}

\* C11: every preset of an export is re-framed from one crop value, the
\* one current when the export was requested, whatever pointer events and
\* image loads come in while the export is in flight; and no step of the
\* export writes the crop or the image.
C11_ExportUsesCropAtItsStart ==
    [][ /\ (exportPhase' # exportPhase \/ tasks' # tasks)
              => UNCHANGED <<appImage, appCrop, image, cropRect>>
        /\ ExportStarted'
              => \A i \in DOMAIN tasks' : tasks'[i].userCrop = Val(clickCrop') ]_vars

\* C12: an export requested with no image or no crop is refused with the
\* precondition alert: from such a state no step starts the batch
\* processor, packages anything or touches the export button, and the step
\* that raises the alert leaves image, crop, camera and presets as they are.
C12_RefusedExportChangesNothing ==
    [][ (appImage = Null \/ appCrop = Null) =>
          /\ UNCHANGED <<exportPhase, tasks, zipFiles, archive, btnDisabled>>
          /\ alertMsg' # alertMsg =>
                /\ alertMsg' = "Please upload an image first."
                /\ UNCHANGED <<appImage, appCrop, image, cropRect, view,
                               appPresets, presets, stored>> ]_vars

\* An export has been requested and refused before any image was loaded.
C12_Witness ==
    /\ alertMsg = "Please upload an image first."
    /\ appImage = Null
    /\ exportPhase = "idle"
    /\ ~btnDisabled

\* C13: after an export in which every preset was rasterized, the archive
\* holds exactly one entry per exported preset, each under the filename of
\* its preset.
C13_OneEntryPerPreset ==
    (exportPhase = "saved" /\ \A i \in DOMAIN tasks : tasks[i].status = "blob")
        => /\ Cardinality(Val(archive)) = Len(tasks)
           /\ \A i \in DOMAIN tasks : Archived(i)

\* The crop's corners in view space, in the order the handles are tried.
HandleOrder == <<"resize-tl", "resize-tr", "resize-bl", "resize-br">>

ViewCorners ==
    LET r == Val(cropRect)
        ToView(x, y) == imageToCanvas(image, canvas, view, x, y)
    IN  << ToView(r.x, r.y),
           ToView(QAdd(r.x, r.width), r.y),
           ToView(r.x, QAdd(r.y, r.height)),
           ToView(QAdd(r.x, r.width), QAdd(r.y, r.height)) >>

\* The pointer is strictly within handleSize of the corner, on both axes.
NearCorner(pt, c) ==
    /\ QLt(QAbs(QSub(pt[1], c[1])), Q(handleSize))
    /\ QLt(QAbs(QSub(pt[2], c[2])), Q(handleSize))

StrictlyInsideCrop(pt) ==
    /\ QLt(ViewCorners[1][1], pt[1]) /\ QLt(pt[1], ViewCorners[4][1])
    /\ QLt(ViewCorners[1][2], pt[2]) /\ QLt(pt[2], ViewCorners[4][2])

\* C14: after a pointerDown with an image loaded, the mode is that of the
\* first handle, in the order tl, tr, bl, br, whose hit zone holds the
\* pointer (zones overlapping or lying inside the crop included); with no
\* handle hit it is move strictly inside the crop and pan elsewhere; and
\* the anchor is the pointer position.
C14_PointerDownMode ==
    lastEvent = "down" =>
        LET pt == Val(dragStart)
            hits == { k \in 1..4 : NearCorner(pt, ViewCorners[k]) }
        IN  /\ isDragging
            /\ dragStart # Null
            /\ dragMode =
                  IF hits # {}
                  THEN HandleOrder[CHOOSE k \in hits : \A j \in hits : k <= j]
                  ELSE IF StrictlyInsideCrop(pt) THEN "move" ELSE "pan"

\* A pointerDown within the hit zones of both the top-left and the
\* bottom-right handle, and strictly inside the crop: top-left wins.
C14_Witness ==
    /\ lastEvent = "down"
    /\ dragMode = "resize-tl"
    /\ NearCorner(Val(dragStart), ViewCorners[4])
    /\ StrictlyInsideCrop(Val(dragStart))

\* The step is a pointerMove, handled or ignored.
PointerMoveStep == lastEvent' \in {"move", "move-ignored"}

\* C15: a pointerUp, in whatever mode, ends the gesture (not dragging, no
\* mode, no anchor) and changes neither crop nor camera; a pointerMove
\* that comes after it with no pointerDown in between changes neither.
C15_PointerUpEndsGesture ==
    [][ /\ lastEvent' = "up" =>
              /\ ~isDragging' /\ dragMode' = "none" /\ dragStart' = Null
              /\ UNCHANGED <<cropRect, appCrop, view>>
        /\ (PointerMoveStep /\ (lastEvent = "up" \/ ~isDragging)) =>
              /\ lastEvent' = "move-ignored"
              /\ UNCHANGED <<cropRect, appCrop, view>> ]_vars

\* A pointerMove is ignored after a gesture that changed the crop has been
\* ended by a pointerUp.
C15_Witness ==
    /\ lastEvent = "move-ignored"
    /\ image # Null
    /\ nGestures > 0
    /\ dragMode = "none"
    /\ cropRect # Some(DefaultCrop(Val(image)))

\* The step is a pointerMove handled in pan mode.
PanStep == lastEvent' = "move" /\ dragMode = "pan" /\ MoveGuard

\* C16: a pointerMove in pan mode adds the pointer's displacement to the
\* pan offset one to one and moves the anchor to the pointer, so that
\* pan - anchor is the same before and after: over any sequence of such
\* moves pan = pan at pointerDown + (last pointer - pointerDown position).
\* The zoom and the crop are not changed and the observer is not called.
C16_PanFollowsPointer ==
    [][ PanStep =>
          /\ QSub(view'.panX, Val(dragStart')[1]) = QSub(view.panX, Val(dragStart)[1])
          /\ QSub(view'.panY, Val(dragStart')[2]) = QSub(view.panY, Val(dragStart)[2])
          /\ view'.zoom = view.zoom
          /\ UNCHANGED <<cropRect, appCrop>>
          /\ ~notified' ]_vars

\* A pan has moved a zoomed camera.
C16_Witness ==
    /\ lastEvent = "move"
    /\ dragMode = "pan"
    /\ view.zoom # Q(1)
    /\ view.panX # Q(0)
    /\ Val(dragStart)[1] # view.panX

\* C17: every step that changes the engine's crop (image load, move,
\* resize) calls the observer, and after every step appState.cropRect
\* equals the engine's crop.
C17_ObserverFollowsCrop ==
    [][ /\ cropRect' # cropRect => notified'
        /\ appCrop' = cropRect' ]_vars

\* A resize has changed the crop and the application state holds it.
C17_Witness ==
    /\ lastEvent = "move"
    /\ dragMode \in ResizeModes
    /\ notified
    /\ appCrop # Some(DefaultCrop(Val(image)))

\* The zoom factor lies in [0.1, 10].
ZoomInRange(z) == QLe(QNorm(1, 10), z) /\ QLe(z, Q(10))

\* z clamped to [0.1, 10].
ClampZoom(z) ==
    IF QLt(z, QNorm(1, 10)) THEN QNorm(1, 10) ELSE IF QGt(z, Q(10)) THEN Q(10) ELSE z

\* C18: the zoom factor is in [0.1, 10] before and after every step, and
\* a wheel event on a loaded image sets it to the old factor times 0.9
\* (deltaY > 0) or times 1.1 (otherwise), clamped to that range.
C18_ZoomClamped ==
    [][ /\ ZoomInRange(view.zoom)
        /\ ZoomInRange(view'.zoom)
        /\ \A p \in Points, d \in BOOLEAN :
              (handleWheel(p, d) /\ image # Null) =>
                  view'.zoom = ClampZoom(QMul(view.zoom,
                                              IF d THEN QNorm(9, 10) ELSE QNorm(11, 10))) ]_vars

\* A wheel event at the upper limit has asked for more zoom and left the
\* factor at 10.
C18_Witness ==
    /\ lastEvent = "wheel"
    /\ nWheel > 0
    /\ view.zoom = Q(10)

\* C19: after a wheel event at pointer position p, the image point that
\* was under p before the event is under p again, whether the zoom factor
\* changed or was held at a limit of its range.
C19_ZoomKeepsPointUnderPointer ==
    [][ \A p \in Points, d \in BOOLEAN :
          (handleWheel(p, d) /\ image # Null) =>
              LET before == canvasToImage(image, canvas, view, Q(p[1]), Q(p[2]))
              IN  imageToCanvas(image, canvas, view', before[1], before[2])
                    = <<Q(p[1]), Q(p[2])>> ]_vars

\* A wheel event off the canvas centre has changed zoom and pan.
C19_Witness ==
    /\ lastEvent = "wheel"
    /\ nWheel > 0
    /\ view.zoom \notin ZoomStarts
    /\ view.panX # Q(0)
    /\ view.panY # Q(0)

\* Image-space points: inside, on the border of, and outside the image.
ImagePoints == { <<0, 0>>, <<7, 3>>, <<50, 100>>, <<100, 200>>, <<-20, 250>> }

\* C20: with an image loaded, imageToCanvas and canvasToImage are inverse
\* to each other at every camera state, in both orders.
C20_TransformsAreInverse ==
    image # Null =>
        /\ \A p \in Points :
              LET i == canvasToImage(image, canvas, view, Q(p[1]), Q(p[2]))
              IN  imageToCanvas(image, canvas, view, i[1], i[2]) = <<Q(p[1]), Q(p[2])>>
        /\ \A q \in ImagePoints :
              LET c == imageToCanvas(image, canvas, view, Q(q[1]), Q(q[2]))
              IN  canvasToImage(image, canvas, view, c[1], c[2]) = <<Q(q[1]), Q(q[2])>>

\* The camera is zoomed and panned on both axes.
C20_Witness ==
    /\ image # Null
    /\ view.zoom # Q(1)
    /\ view.panX # Q(0)
    /\ view.panY # Q(0)
    /\ lastEvent = "move"
    /\ dragMode = "pan"

\* The centred square of side 0.8 * min(W, H) in a W x H image.
CentredSquare(W, H) ==
    LET side == QNorm(4 * (IF W < H THEN W ELSE H), 5)
    IN  [x |-> QNorm(5 * W - 4 * (IF W < H THEN W ELSE H), 10),
         y |-> QNorm(5 * H - 4 * (IF W < H THEN W ELSE H), 10),
         width |-> side, height |-> side]

\* C21: an image load sets the crop to the centred square of side
\* 0.8 * min(W, H) of the loaded image, whatever the crop was before; for
\* a 1000 x 2000 image that is {100, 600, 800, 800}.
C21_LoadSetsDefaultCrop ==
    [][ lastEvent' = "load" =>
          /\ cropRect' = Some(CentredSquare(Val(image')[1], Val(image')[2]))
          /\ DefaultCrop(<<1000, 2000>>)
                = [x |-> Q(100), y |-> Q(600), width |-> Q(800), height |-> Q(800)] ]_vars

\* An image was loaded in the middle of a move gesture that had dragged
\* the crop from (90, 90) to (120, 120).
C21_Witness ==
    /\ lastEvent = "load"
    /\ dragMode = "move"
    /\ dragStart = Some(<<Q(120), Q(120)>>)
    /\ nWheel = 0
    /\ cropRect = Some(CentredSquare(Val(image)[1], Val(image)[2]))

\* C22: after an image load the camera is zoom = 1, panX = 0, panY = 0,
\* whatever wheel and pan events came before.
C22_LoadResetsCamera ==
    lastEvent = "load" => view = [zoom |-> Q(1), panX |-> Q(0), panY |-> Q(0)]

\* An image was loaded in the middle of a pan gesture on a zoomed camera.
C22_Witness ==
    /\ lastEvent = "load"
    /\ nWheel > 0
    /\ dragMode = "pan"
    /\ dragStart = Some(<<Q(160), Q(160)>>)
    /\ view.zoom = Q(1)

\* q is a number: a fraction with a positive denominator.
IsNumber(q) == q[2] > 0

\* The viewport leaves no room inside the margins.
DegenerateViewport == canvas[1] - 2 * margin <= 0 \/ canvas[2] - 2 * margin <= 0

FreshFrame ==
    [p \in SamplePixels |->
        PaintPixel(image, canvas, view, cropRect, FullClip(canvas), BlankPaint, p)]

\* The bitmap one more call of render leaves, the state being as it is.
NextFrame ==
    [p \in SamplePixels |->
        PaintPixel(image, canvas, view, cropRect, Val(ctxClip), Val(pixels)[p], p)]

\* C24: render is idempotent.  Every change of camera, image or crop is
\* followed by render, so in every state with an image the bitmap is the
\* output of a render of the present state; a second render in a row
\* leaves every pixel as it is.
C24_RenderIdempotent ==
    (image # Null /\ pixels # Null) => NextFrame = Val(pixels)

\* The crop has been dragged, and the bitmap is not what a first render of
\* the present state draws.
C24_Witness ==
    /\ image # Null
    /\ pixels # Null
    /\ lastEvent = "move"
    /\ notified
    /\ Val(pixels) # FreshFrame
    /\ Val(ctxClip) # ClipAfter(image, canvas, view, cropRect, FullClip(canvas))

\* C25: the drawn output is a function of the present camera, image and
\* crop alone: whatever renders and crop positions came before, the bitmap
\* is the one render draws for this state on a fresh canvas, and the clip
\* region is the one a single render leaves.
C25_RenderIsPureFunctionOfState ==
    (image # Null /\ pixels # Null) =>
        /\ Val(pixels) = FreshFrame
        /\ Val(ctxClip) = ClipAfter(image, canvas, view, cropRect, FullClip(canvas))

\* The point of the interval [lo, hi] nearest to v.
Nearest(v, lo, hi) == IF QLt(v, lo) THEN lo ELSE IF QGt(v, hi) THEN hi ELSE v

\* The re-framed size of the call, and the origin of the box of that size
\* centred on the user crop's centre.
RfSize ==
    LET tr == targetRatio(Val(rfPreset)[1], Val(rfPreset)[2])
    IN  ShrinkToImage(Val(rfImage), ExpandToRatio(Val(rfCrop), tr), tr)

RfCentredOrigin ==
    << QSub(QAdd(Val(rfCrop).x, QHalf(Val(rfCrop).width)), QHalf(RfSize[1])),
       QSub(QAdd(Val(rfCrop).y, QHalf(Val(rfCrop).height)), QHalf(RfSize[2])) >>

RfCentredBoxInside ==
    /\ QLe(Q(0), RfCentredOrigin[1])
    /\ QLe(Q(0), RfCentredOrigin[2])
    /\ QLe(QAdd(RfCentredOrigin[1], RfSize[1]), Q(Val(rfImage)[1]))
    /\ QLe(QAdd(RfCentredOrigin[2], RfSize[2]), Q(Val(rfImage)[2]))

\* C26: the source rectangle has the re-framed size; when the box of that
\* size centred on the user crop's centre lies inside the image, it is that
\* box (same centre); otherwise it is that box translated, on each axis, by
\* the least amount that brings it inside the image.
C26_CentredOrLeastTranslation ==
    RfDone =>
        LET src == Val(rfSource) IN
        /\ src.width = RfSize[1]
        /\ src.height = RfSize[2]
        /\ RfCentredBoxInside =>
              /\ QAdd(src.x, QHalf(src.width))
                    = QAdd(Val(rfCrop).x, QHalf(Val(rfCrop).width))
              /\ QAdd(src.y, QHalf(src.height))
                    = QAdd(Val(rfCrop).y, QHalf(Val(rfCrop).height))
        /\ src.x = Nearest(RfCentredOrigin[1], Q(0), QSub(Q(Val(rfImage)[1]), RfSize[1]))
        /\ src.y = Nearest(RfCentredOrigin[2], Q(0), QSub(Q(Val(rfImage)[2]), RfSize[2]))

\* The centred box stuck out of the image on the right and was shifted
\* left to end at the image's right edge, away from the origin.
C26_Witness ==
    /\ RfDone
    /\ QGt(QAdd(RfCentredOrigin[1], RfSize[1]), Q(Val(rfImage)[1]))
    /\ QGt(Val(rfSource).x, Q(0))
    /\ QAdd(Val(rfSource).x, Val(rfSource).width) = Q(Val(rfImage)[1])

\* The step is a wheel event, handled or ignored.
WheelStep == nWheel' = nWheel + 1

\* C27: a wheel event changes nothing but the camera: crop, interaction
\* mode, dragging flag and anchor stay as they are and the crop observer is
\* not called, in the middle of a gesture as well as outside one.
C27_WheelChangesOnlyCamera ==
    [][ WheelStep =>
          /\ lastEvent' \in {"wheel", "wheel-ignored"}
          /\ UNCHANGED <<cropRect, appCrop, image, appImage, canvas,
                         isDragging, dragMode, dragStart>>
          /\ ~notified' ]_vars

\* A wheel event has zoomed in the middle of a resize gesture that has
\* changed the crop.
C27_Witness ==
    /\ lastEvent = "wheel"
    /\ isDragging
    /\ dragMode \in ResizeModes
    /\ view.zoom # Q(1)
    /\ cropRect # Some(DefaultCrop(Val(image)))

\* C28: in every state the engine is dragging iff a mode is set iff an
\* anchor is set, and a pointerDown without an image leaves all three
\* unset.
C28_GestureFieldsConsistent ==
    /\ isDragging <=> dragMode # "none"
    /\ dragMode # "none" <=> dragStart # Null
    /\ lastEvent = "down-ignored" => (~isDragging /\ dragMode = "none" /\ dragStart = Null)

\* A gesture is in progress across an image load.
C28_Witness ==
    /\ lastEvent = "load"
    /\ isDragging
    /\ dragMode = "pan"
    /\ dragStart # Null
    /\ nGestures > 0

\* Two image files have been submitted and both loads have completed.
BothLoaded == Len(loads) = 2 /\ \A i \in DOMAIN loads : loads[i].phase = "done"

\* C29: when two image files have been submitted one after the other and
\* both loads have completed, the second file's image is the current source
\* image of application and engine (until a pointer event, with its
\* default crop and the reset camera), in whatever order the reads and
\* decodes completed.
C29_LastSubmittedFileWins ==
    BothLoaded =>
        LET f2 == <<loads[2].file[2], loads[2].file[3]>> IN
        /\ appImage = Some(f2)
        /\ image = Some(f2)
        /\ lastEvent = "load" =>
              (cropRect = Some(DefaultCrop(f2)) /\ appCrop = cropRect /\ view = ResetView)

\* The preset with this id in a list of presets.
PresetOf(list, id) == CHOOSE p \in { list[i] : i \in DOMAIN list } : p.id = id

\* C30: a width or height edit on a preset sets the other dimension to the
\* edited value scaled in the preset's aspect ratio when the preset's
\* lockAspectRatio in the preset store is true at the edit, and leaves the
\* other dimension as it is in the store when that flag is false, whatever
\* edits, additions and removals went before.
C30_RescaleFollowsStoreLock ==
    [][ (nEdits' = nEdits + 1 /\ Val(lastChange')[2] \in {"width", "height"}) =>
          LET id    == Val(lastChange')[1]
              field == Val(lastChange')[2]
              val   == Val(lastChange')[3]
              other == IF field = "width" THEN "height" ELSE "width"
              old   == PresetOf(presets, id)
              new   == PresetOf(presets', id)
              row   == PresetOf([i \in DOMAIN rows |-> rows[i].preset], id)
          IN /\ new[field] = val
             /\ new[other] = IF old.lockAspectRatio
                              THEN RowUpdates([row EXCEPT !.lockAspectRatio = TRUE],
                                              field, val)[other]
                              ELSE old[other] ]_vars

\* A step of a preset operation: an add, a remove or an update.
PresetOperation == presets' # presets \/ nAdds' # nAdds \/ nEdits' # nEdits

\* C31: after every preset operation (add, remove, update) the list a reload
\* would read from the store equals PresetManager's list in memory, and the
\* list of the application state, which an export reads, equals it too.
C31_StoreAndAppFollowPresets ==
    [][ PresetOperation =>
          /\ stored' # Null
          /\ loadPresets(stored') = presets'
          /\ appPresets' = presets' ]_vars

\* An export is in flight: accepted, and handleDownload not yet at its end.
InFlight == exportPhase \in {"delay", "awaitAll", "zipping"}

\* A step that accepts an export request.
ExportAccepted == exportPhase' = "delay" /\ clickImage' # Null /\ originalText' # originalText

\* A step of the export: of handleDownload, process or their callbacks.
ExportStep ==
    \/ exportPhase' # exportPhase
    \/ tasks' # tasks
    \/ btnDisabled' # btnDisabled
    \/ zipFiles' # zipFiles

\* C32: at most one export is in flight: while one is, the download button
\* is disabled, and a request is accepted only when none is.  Every accepted
\* export comes to its end, by success or by failure, with the button enabled
\* again and its label restored.  No step of the export changes the crop
\* rectangle, the camera or the presets.
C32_OneExportInFlight ==
    /\ [](InFlight => btnDisabled)
    /\ [][ExportAccepted => ~InFlight /\ ~btnDisabled]_vars
    /\ [][ExportStep => UNCHANGED <<cropRect, appCrop, view, presets, appPresets, stored>>]_vars
    /\ InFlight ~> (~InFlight /\ ~btnDisabled /\ btnHTML = DownloadLabel)

\* An accepted export of which one task threw has ended with the failure
\* reported, the button enabled and its label back.
C32_Witness ==
    /\ exportPhase = "failed"
    /\ \E i \in DOMAIN tasks : tasks[i].status = "threw"
    /\ alertMsg = "Error processing images"
    /\ ~btnDisabled
    /\ btnHTML = DownloadLabel

====
